---- MODULE Spec2Model ----
(***************************************************************************)
(* A model of the agent-hub frontend: the ProofreaderWidget upload         *)
(* transport (frontend/src/components/ProofreaderWidget.jsx) and the       *)
(* ErrorBoundary reporting pipeline (frontend/src/components/              *)
(* ErrorBoundary.jsx).                                                     *)
(*                                                                         *)
(* Scheduling: the browser event loop runs one task at a time.  One action *)
(* of the model is one task: an event handler together with the promise    *)
(* continuations (microtasks) it releases.  The application is mounted     *)
(* with ReactDOM.createRoot (main.jsx:8), so the state updates requested   *)
(* inside one task are batched and committed together: when a task calls   *)
(* the same setter several times, the last call is the committed value.    *)
(***************************************************************************)
EXTENDS Integers, Sequences, FiniteSets, TLC

VARIABLES
    \* ---- ProofreaderWidget (ProofreaderWidget.jsx:6-17) ----
    file,           \* useState(null): the selected file
    issues,         \* useState(null): the dry-run result shown
    error,          \* useState(""): the message shown
    downloadUrl,    \* useState(null): the object URL offered for download
    uploadPct,      \* useState(0)
    phase,          \* useState("idle")
    downloading,    \* useState(false)
    loading,        \* useState(false)
    mounted,        \* the widget instance is mounted
    \* ---- the browser, as the widget sees it ----
    xhrs,           \* the XMLHttpRequests in flight
    sent,           \* every request handed to xhr.send, in order
    liveUrls,       \* object URLs created and not yet revoked
    nextUrl,        \* the next object URL URL.createObjectURL returns
    \* ---- history ----
    clicks,         \* the number of doDryRun/doAnnotate invocations by the user
    phases,         \* the committed values of phase since the last transfer began
    pcts,           \* the committed values of uploadPct since the last transfer began
    ev,             \* the last task that ran
    \* ---- ErrorBoundary (ErrorBoundary.jsx:60-66) ----
    hasError,
    ebError,        \* this.state.error: the captured fault's message, or Null
    reported,
    reporting,
    reportFailed,
    autoReport,     \* this.props.autoReport
    \* ---- the browser, as the boundary sees it ----
    now,            \* Date.now(), in milliseconds since the session began
    pathname,       \* window.location.pathname
    storageOK,      \* sessionStorage is usable (otherwise every access throws)
    lastReport,     \* sessionStorage["eb-last-report"]: NoReport or [key, ts]
    pending,        \* the report sends in flight: how many of each kind
    \* ---- history ----
    skipped,        \* a fault was suppressed since the last automatic attempt
    autoAt,         \* per (path, message): when its last automatic send was
                    \* attempted, -1 if never
    lastAuto,       \* the last automatic attempt: its path, message and time,
                    \* the time since the previous one for the same pair, and
                    \* whether a fault had been suppressed in between
    ticks,          \* the number of times the clock was advanced
    navs,           \* the number of times the location changed
    trace,          \* the calls made by the boundary's last task, in order
    unhandled,      \* an exception or a rejection escaped the boundary
    \* ---- doAnnotate's download name (ProofreaderWidget.jsx:142-152) ----
    cdParts,        \* how the response's Content-Disposition header is made up
    cd,             \* xhr.getResponseHeader("Content-Disposition") || ""
    origName,       \* file.name
    aDownload,      \* a.download
    named,          \* the anchor has been given its download name
    \* ---- the issue view (ProofreaderWidget.jsx:165-184) ----
    issueItems,     \* issues, as an array of issue objects (<<>> also for null)
    query,          \* useState(""): the filter text
    filtered,       \* useMemo over [issues, query]
    countsByType,   \* useMemo over [issues]
    arrived,        \* history: the issue list as setIssues received it
    \* ---- LeadCapture (LeadCapture.jsx:6-7) ----
    form,           \* useState({name, email, phone, interest}): name and email
    leadStatus,     \* status: useState({loading: false, msg: "", ok: null})
    posts,          \* the POST /lead requests issued so far
    inFlight,       \* the POST /lead requests not yet settled
    successCalls,   \* how many times onSuccess was invoked
    submits,        \* history: the submits, by whether name and email were given
    answers,        \* history: the settled requests, by 2xx or not
    lastLead,       \* the last task of the form
    \* ---- the Agents page (Agents.jsx:9-11) ----
    modalOpen,      \* useState(false)
    pendingAgent,   \* useState(null): the agent whose gate was opened
    agentsMounted,  \* the Agents page is the route on display
    navigated,      \* the routes navigate() was called with, in order
    orphans         \* POST /lead requests in flight whose form was unmounted

widgetVars == <<file, issues, error, downloadUrl, uploadPct, phase, downloading,
                loading, mounted, xhrs, sent, liveUrls, nextUrl, clicks, phases,
                pcts, ev>>
ebVars == <<hasError, ebError, reported, reporting, reportFailed, autoReport,
            now, pathname, storageOK, lastReport, pending, skipped, autoAt,
            lastAuto, ticks, navs, trace, unhandled>>
nameVars == <<cdParts, cd, origName, aDownload, named>>
viewVars == <<issueItems, query, filtered, countsByType, arrived>>
leadVars == <<form, leadStatus, posts, inFlight, successCalls, submits, answers,
              lastLead>>
gateVars == <<modalOpen, pendingAgent, agentsMounted, navigated, orphans>>
vars == <<widgetVars, ebVars, nameVars, viewVars, leadVars, gateVars>>

Null == "null"            \* JavaScript null, where the other values are strings
NoFile == [name |-> <<>>, size |-> 0]          \* file === null
NoIssues == [of |-> NoFile, n |-> -1]          \* issues === null
NoUrl == 0                                     \* downloadUrl === null

(***************************************************************************)
(* Bounds of the model.                                                    *)
(***************************************************************************)
MaxRequests == 2    \* upload requests issued by one widget instance
MaxTotal == 3       \* a request body's length, in progress-event units
MaxPending == 2     \* report sends in flight at one time
MaxTicks == 2       \* advances of the clock in one session
MaxNavs == 1        \* changes of location in one session
MaxIssues == 3      \* issues in one dry-run result
MaxSubmits == 3     \* submits of one lead form

(***************************************************************************)
(* Files.  A name is its sequence of characters.                           *)
(***************************************************************************)
MaxFileBytes == 52428800   \* 50 * 1024 * 1024

Names == { <<"a", ".", "p", "d", "f">>,
           <<"B", ".", "P", "d", "F">>,
           <<"p", "d", "f">>,
           <<"e", ".", "p", "d", "f", "x">> }
Sizes == {MaxFileBytes, MaxFileBytes + 1}
Files == [name : Names, size : Sizes]

\* String.prototype.toLowerCase on one character of the names above.
ToLowerChar(c) ==
    CASE c = "P" -> "p"
      [] c = "D" -> "d"
      [] c = "F" -> "f"
      [] c = "B" -> "b"
      [] OTHER -> c

\* /\.pdf$/i.test(name): the last four characters are ".pdf", letters in
\* either case.
TestPdf(name) ==
    /\ Len(name) >= 4
    /\ LET tail == SubSeq(name, Len(name) - 3, Len(name))
       IN  [i \in 1..4 |-> ToLowerChar(tail[i])] = <<".", "p", "d", "f">>

\* Faulty variant: a limit one byte too high.
TooLargeLax(size) == size > MaxFileBytes + 1
\* f.size > 50 * 1024 * 1024
TooLarge(size) == size > MaxFileBytes

MsgNotPdf == "Please choose a .pdf file"
MsgTooLarge == "PDF is larger than 50 MB limit"

(***************************************************************************)
(* Responses.  A body is what the server wrote: whether it parses as       *)
(* JSON, the detail and error fields of the parsed object ("" when         *)
(* absent) and the length of its issues array (-1 when it has none).       *)
(***************************************************************************)
Statuses == {200, 299, 300, 500}
Bodies == { [json |-> TRUE,  detail |-> "bad pdf", error |-> "",          n |-> -1],
            [json |-> TRUE,  detail |-> "",        error |-> "too large", n |-> -1],
            [json |-> TRUE,  detail |-> "bad pdf", error |-> "too large", n |-> -1],
            [json |-> TRUE,  detail |-> "",        error |-> "",          n |-> 2],
            [json |-> TRUE,  detail |-> "",        error |-> "",          n |-> -1],
            [json |-> FALSE, detail |-> "",        error |-> "",          n |-> -1] }
NoBody == [json |-> FALSE, detail |-> "", error |-> "", n |-> -1]

MsgNetwork == "Network error"
MsgTimeout == "Request timed out"
MsgInvalidState == "InvalidStateError"

\* xhr.status >= 200 && xhr.status < 300
IsOk(status) == status >= 200 /\ status < 300

\* The responseText getter throws an InvalidStateError unless responseType
\* is "" or "text" (XMLHttpRequest standard).
ResponseTextThrows(responseType) == responseType \notin {"", "text"}

GenericMessage(status) == "Request failed (" \o ToString(status) \o ")"

\* xhr.onload, the non-2xx branch: the message the promise is rejected with.
\* Everything between try and catch {} that throws leaves msg as it was.
OnloadMessage(responseType, status, body) ==
    IF ResponseTextThrows(responseType) THEN GenericMessage(status)
    ELSE IF ~body.json THEN GenericMessage(status)
    ELSE IF body.detail # "" THEN body.detail
    ELSE IF body.error # "" THEN body.error
    ELSE GenericMessage(status)

\* Faulty variant: String(err) where err.message was meant.
ErrTextString(msg) == "Error: " \o msg
\* err.message || String(err)
ErrText(msg) == IF msg = "" THEN "Error" ELSE msg

\* Math.round((e.loaded / e.total) * 100), for 0 <= loaded <= total, total > 0:
\* the nearest integer, halves rounded up.
\* Faulty variant: the share still to send instead of the share sent.
PctRemaining(loaded, total) == (200 * (total - loaded) + total) \div (2 * total)
PctOf(loaded, total) == (200 * loaded + total) \div (2 * total)

\* The value one task commits for a state variable: that of its last setter
\* call, or the old value when it made none (React 18 batching).
\* Faulty variant: the first call of the task is what is committed.
CommitFirst(old, calls) == IF calls = <<>> THEN old ELSE calls[1]
Commit(old, calls) == IF calls = <<>> THEN old ELSE calls[Len(calls)]
\* History: the committed value is logged when it differs from the last one.
Logged(log, old, calls) ==
    IF Commit(old, calls) = old THEN log ELSE Append(log, Commit(old, calls))

Ev(op) == [op |-> op, file |-> NoFile, kind |-> Null, status |-> 0, body |-> NoBody]

(***************************************************************************)
(* ProofreaderWidget.                                                      *)
(***************************************************************************)
UrlDryRun == "/proofread-dryrun"
UrlAnnotate == "/proofread"

\* A state setter called on an unmounted component changes nothing.
Set(old, calls) == IF mounted THEN Commit(old, calls) ELSE old
SetLog(log, old, calls) == IF mounted THEN Logged(log, old, calls) ELSE log

WidgetInit ==
    /\ file = NoFile
    /\ issues = NoIssues
    /\ error = ""
    /\ downloadUrl = NoUrl
    /\ uploadPct = 0
    /\ phase = "idle"
    /\ downloading = FALSE
    /\ loading = FALSE
    /\ mounted = TRUE
    /\ xhrs = {}
    /\ sent = <<>>
    /\ liveUrls = {}
    /\ nextUrl = 1
    /\ clicks = 0
    /\ phases = <<"idle">>
    /\ pcts = <<>>
    /\ ev = Ev("init")

\* A guard of onPickFileDirect fails: setError(msg); return.
\* Faulty variant: the selection dropped together with the rejected file.
RefuseClearing(msg) ==
    /\ error' = msg
    /\ file' = NoFile
    /\ issues' = NoIssues
    /\ UNCHANGED <<downloadUrl, liveUrls>>
Refuse(msg) ==
    /\ error' = msg
    /\ UNCHANGED <<file, issues, downloadUrl, liveUrls>>

\* onPickFileDirect(f), reached from onDrop and from onPickFile (the onChange
\* of either file input) with the first file of the event, which is not null.
onPickFileDirect(f) ==
    /\ mounted
    /\ IF ~TestPdf(f.name)
       THEN Refuse(MsgNotPdf)
       ELSE IF TooLarge(f.size)
       THEN Refuse(MsgTooLarge)
       ELSE /\ file' = f
            /\ issues' = NoIssues
            /\ error' = ""
            /\ IF downloadUrl # NoUrl
               THEN /\ liveUrls' = liveUrls \ {downloadUrl}
                    /\ downloadUrl' = NoUrl
               ELSE UNCHANGED <<downloadUrl, liveUrls>>
    /\ ev' = [Ev("pick") EXCEPT !.file = f]
    /\ UNCHANGED <<uploadPct, phase, downloading, loading, mounted, xhrs, sent,
                   nextUrl, clicks, phases, pcts>>

\* Faulty variant: buttons disabled only while no file is selected.
ActionsDisabledNoFile == file = NoFile
\* The buttons' disabled attribute (lines 251 and 254).
ActionsDisabled == file = NoFile \/ loading \/ downloading

\* new XMLHttpRequest(); open; send(fd): the request is in flight and
\* xhr.onloadstart has run (it is dispatched inside send).
xhrUpload(url, f, responseType, total) ==
    /\ xhrs' = xhrs \cup {[id |-> Len(sent) + 1, responseType |-> responseType,
                           file |-> f, total |-> total, loaded |-> 0,
                           upDone |-> FALSE]}
    /\ sent' = Append(sent, [url |-> url, file |-> f])
    /\ phase' = Set(phase, <<"upload">>)
    /\ uploadPct' = Set(uploadPct, <<0>>)
    /\ phases' = SetLog(<<phase>>, phase, <<"upload">>)
    /\ pcts' = <<Set(uploadPct, <<0>>)>>

\* doDryRun up to its await.
doDryRun(total) ==
    /\ mounted
    /\ ~ActionsDisabled
    /\ Len(sent) < MaxRequests
    /\ file # NoFile
    /\ loading' = TRUE
    /\ error' = ""
    /\ issues' = NoIssues
    /\ xhrUpload(UrlDryRun, file, "json", total)
    /\ clicks' = clicks + 1
    /\ ev' = [Ev("doDryRun") EXCEPT !.file = file, !.kind = "json"]
    /\ UNCHANGED <<file, downloadUrl, downloading, mounted, liveUrls, nextUrl>>

\* doAnnotate up to its await.
doAnnotate(total) ==
    /\ mounted
    /\ ~ActionsDisabled
    /\ Len(sent) < MaxRequests
    /\ file # NoFile
    /\ downloading' = TRUE
    /\ error' = ""
    /\ xhrUpload(UrlAnnotate, file, "blob", total)
    /\ clicks' = clicks + 1
    /\ ev' = [Ev("doAnnotate") EXCEPT !.file = file, !.kind = "blob"]
    /\ UNCHANGED <<file, issues, downloadUrl, loading, mounted, liveUrls, nextUrl>>

\* e.lengthComputable of the upload's progress events: the length of the
\* body is known and not 0 (a total of 0 stands for a length not known).
lengthComputable(total) == total # 0
\* The setUploadPct calls of xhr.upload.onprogress for one event.
\* Faulty variant: the percentage rounded down.
ProgressPctCallsFloor(l, total) ==
    IF lengthComputable(total) THEN <<(100 * l) \div total>> ELSE <<>>
ProgressPctCalls(l, total) ==
    IF lengthComputable(total) THEN <<PctOf(l, total)>> ELSE <<>>

\* xhr.upload.onprogress with e.loaded = l.
onprogress(x, l) ==
    /\ x \in xhrs
    /\ ~x.upDone
    /\ l \in x.loaded .. x.total
    /\ xhrs' = (xhrs \ {x}) \cup {[x EXCEPT !.loaded = l]}
    /\ uploadPct' = Set(uploadPct, ProgressPctCalls(l, x.total))
    /\ pcts' = SetLog(pcts, uploadPct, ProgressPctCalls(l, x.total))
    /\ ev' = [Ev("progress") EXCEPT !.file = x.file, !.kind = x.responseType]
    /\ UNCHANGED <<file, issues, error, downloadUrl, phase, downloading, loading,
                   mounted, sent, liveUrls, nextUrl, clicks, phases>>

\* The request body has been sent: the upload object gets progress (all
\* bytes), load and loadend; xhr.upload.onloadend sets the phase.
onUploadComplete(x) ==
    /\ x \in xhrs
    /\ ~x.upDone
    /\ xhrs' = (xhrs \ {x}) \cup {[x EXCEPT !.loaded = x.total, !.upDone = TRUE]}
    /\ uploadPct' = Set(uploadPct, ProgressPctCalls(x.total, x.total))
    /\ pcts' = SetLog(pcts, uploadPct, ProgressPctCalls(x.total, x.total))
    /\ phase' = Set(phase, <<"processing">>)
    /\ phases' = SetLog(phases, phase, <<"processing">>)
    /\ ev' = [Ev("uploadend") EXCEPT !.file = x.file, !.kind = x.responseType]
    /\ UNCHANGED <<file, issues, error, downloadUrl, downloading, loading,
                   mounted, sent, liveUrls, nextUrl, clicks>>

\* Faulty variant: the phase reset placed before the try block's calls.
SettlePhaseCallsResetFirst(x, inTry) ==
    (IF x.upDone THEN <<>> ELSE <<"processing">>) \o <<"idle">> \o inTry
\* The setPhase calls of a task that ends a transfer: xhr.upload.onloadend
\* when the upload had not completed (request error steps), those of the
\* try block, and the finally block's.
SettlePhaseCalls(x, inTry) ==
    (IF x.upDone THEN <<>> ELSE <<"processing">>) \o inTry \o <<"idle">>

\* Faulty variant: a finally block that leaves the percentage alone.
FinallyPctCallsNone == <<>>
\* setUploadPct(0) in the finally blocks (lines 124 and 161).
FinallyPctCalls == <<0>>

\* The finally blocks of doDryRun and doAnnotate, and the flag each resets.
Finally(x, inTry) ==
    /\ phase' = Set(phase, SettlePhaseCalls(x, inTry))
    /\ phases' = SetLog(phases, phase, SettlePhaseCalls(x, inTry))
    /\ uploadPct' = Set(uploadPct, FinallyPctCalls)
    /\ IF x.responseType = "json"
       THEN loading' = Set(loading, <<FALSE>>) /\ UNCHANGED downloading
       ELSE downloading' = Set(downloading, <<FALSE>>) /\ UNCHANGED loading
    /\ xhrs' = xhrs \ {x}
    /\ pcts' = <<>>
    /\ UNCHANGED <<file, mounted, sent, clicks>>

\* The promise is rejected with msg: the catch and finally blocks run.
Rejected(x, msg) ==
    /\ error' = Set(error, <<ErrText(msg)>>)
    /\ Finally(x, <<>>)
    /\ UNCHANGED <<issues, downloadUrl, liveUrls, nextUrl>>

\* doDryRun after its await resolved: xhr.response is the parsed body, or
\* null when the body is no JSON, and then reading xhr.responseText throws.
DryRunResolved(x, body) ==
    /\ IF body.json
       THEN /\ issues' = Set(issues, <<[of |-> x.file,
                                        n |-> IF body.n >= 0 THEN body.n ELSE 0]>>)
            /\ UNCHANGED error
       ELSE /\ error' = Set(error, <<ErrText(MsgInvalidState)>>)
            /\ UNCHANGED issues
    /\ Finally(x, <<>>)
    /\ UNCHANGED <<downloadUrl, liveUrls, nextUrl>>

\* Faulty variant: an effect without a cleanup.
EffectCleanupNone(held) == {}
\* The cleanup of the effect on downloadUrl (lines 22-26), run when the
\* value changes and at unmount: the URLs it revokes.
EffectCleanup(held) == IF held # NoUrl THEN {held} ELSE {}

\* doAnnotate after its await resolved: the object URL is created and kept;
\* when the new URL is committed the effect cleanup revokes the one held
\* before (an unmounted widget commits nothing).
AnnotateResolved(x) ==
    /\ nextUrl' = nextUrl + 1
    /\ downloadUrl' = Set(downloadUrl, <<nextUrl>>)
    /\ liveUrls' = (liveUrls \cup {nextUrl})
                      \ (IF mounted THEN EffectCleanup(downloadUrl) ELSE {})
    /\ Finally(x, <<"downloading">>)
    /\ UNCHANGED <<issues, error>>

\* xhr.onload with the response's status and body, and the continuation of
\* the awaiting function.
onload(x, status, body) ==
    /\ x \in xhrs
    /\ x.upDone
    /\ IF ~IsOk(status) THEN Rejected(x, OnloadMessage(x.responseType, status, body))
       ELSE IF x.responseType = "json" THEN DryRunResolved(x, body)
       ELSE AnnotateResolved(x)
    /\ ev' = [op |-> "load", file |-> x.file, kind |-> x.responseType,
              status |-> status, body |-> body]

\* xhr.onerror: the transport failed, while sending or while waiting.
onerror(x) ==
    /\ x \in xhrs
    /\ Rejected(x, MsgNetwork)
    /\ ev' = [Ev("error") EXCEPT !.file = x.file, !.kind = x.responseType]

\* xhr.ontimeout: xhr.timeout elapsed before the response was complete.
ontimeout(x) ==
    /\ x \in xhrs
    /\ Rejected(x, MsgTimeout)
    /\ ev' = [Ev("timeout") EXCEPT !.file = x.file, !.kind = x.responseType]

\* The widget is unmounted: the effect cleanup revokes the URL held.
Unmount ==
    /\ mounted
    /\ mounted' = FALSE
    /\ liveUrls' = liveUrls \ EffectCleanup(downloadUrl)
    /\ ev' = Ev("unmount")
    /\ UNCHANGED <<file, issues, error, downloadUrl, uploadPct, phase, downloading,
                   loading, xhrs, sent, nextUrl, clicks, phases, pcts>>

PickFile == \E f \in Files : onPickFileDirect(f)
ClickDryRun == \E total \in 0..MaxTotal : doDryRun(total)
ClickAnnotate == \E total \in 0..MaxTotal : doAnnotate(total)
UploadProgress == \E x \in xhrs, l \in 0..MaxTotal : onprogress(x, l)
UploadComplete == \E x \in xhrs : onUploadComplete(x)
XhrLoad == \E x \in xhrs, status \in Statuses, body \in Bodies : onload(x, status, body)
XhrError == \E x \in xhrs : onerror(x)
XhrTimeout == \E x \in xhrs : ontimeout(x)

(***************************************************************************)
(* Claims about the ProofreaderWidget, checked under Spec.                 *)
(***************************************************************************)
\* The claims' own reading of "ends in .pdf, case-insensitive" and of 50 MiB.
EndsInDotPdf(name) ==
    /\ Len(name) >= 4
    /\ name[Len(name) - 3] = "."
    /\ name[Len(name) - 2] \in {"p", "P"}
    /\ name[Len(name) - 1] \in {"d", "D"}
    /\ name[Len(name)] \in {"f", "F"}
PassesGuards(f) == EndsInDotPdf(f.name) /\ f.size <= 50 * 1024 * 1024
Settled == ev.op \in {"load", "error", "timeout"}

\* C1: every upload request carries a file whose name ends in .pdf
\* (case-insensitive) and whose size is at most 50 MiB; a picked or dropped
\* file that violates either guard is rejected with a validation message,
\* never becomes the selected file, and no request is ever issued for it.
C1_OnlyGuardedFilesUploaded ==
    /\ \A i \in 1..Len(sent) : PassesGuards(sent[i].file)
    /\ \A x \in xhrs : PassesGuards(x.file)
    /\ file # NoFile => PassesGuards(file)
    /\ (ev.op = "pick" /\ ~PassesGuards(ev.file)) =>
          /\ error \in {MsgNotPdf, MsgTooLarge}
          /\ file # ev.file
C1_Witness ==
    /\ ev.op = "pick"
    /\ ev.file.size = 50 * 1024 * 1024 + 1
    /\ EndsInDotPdf(ev.file.name)
    /\ error = MsgTooLarge
    /\ Len(sent) = 1
    /\ file # NoFile

\* C2: for every successful transfer (dry run answered with JSON, annotate
\* answered with a blob) the values taken by phase are exactly
\* idle, upload, processing, idle.
C2_SuccessfulPhaseSequence ==
    (/\ mounted
     /\ ev.op = "load"
     /\ ev.status >= 200 /\ ev.status < 300
     /\ (ev.kind = "blob" \/ ev.body.json))
      => phases = <<"idle", "upload", "processing", "idle">>
C2_Witness ==
    /\ mounted
    /\ ev.op = "load"
    /\ ev.status = 200
    /\ ev.kind = "blob"
    /\ downloadUrl # NoUrl
    /\ phases = <<"idle", "upload", "processing", "idle">>

\* C3: once an upload call has settled, whatever the outcome (2xx, non-2xx,
\* network error, timeout, failure while decoding the response), the widget
\* is at phase idle with uploadPct 0 and neither loading nor downloading, and
\* stays so as long as no new transfer is started.
C3_SettledMeansIdle ==
    (mounted /\ (Settled \/ xhrs = {})) =>
        /\ phase = "idle"
        /\ uploadPct = 0
        /\ ~loading
        /\ ~downloading
C3_Witness ==
    /\ mounted
    /\ ev.op = "load"
    /\ ev.kind = "json"
    /\ ev.status = 200
    /\ ~ev.body.json
    /\ error = MsgInvalidState
    /\ phase = "idle"

\* C4: within one transfer uploadPct is an integer in [0,100] and never
\* decreases from the start of the request until the call settles.
C4_PctMonotoneInRange ==
    /\ uploadPct \in 0..100
    /\ \A i \in 1..Len(pcts) :
          /\ pcts[i] \in 0..100
          /\ i > 1 => pcts[i - 1] <= pcts[i]
C4_Witness ==
    /\ \E x \in xhrs : ~x.upDone /\ x.loaded = 2 /\ x.total = 3
    /\ pcts = <<0, 33, 67>>
    /\ uploadPct = 67

\* The message the specification expects for a status and a body.
ExpectedMessage(status, body) ==
    IF body.json /\ body.detail # "" THEN body.detail
    ELSE IF body.json /\ body.error # "" THEN body.error
    ELSE "Request failed (" \o ToString(status) \o ")"
\* C5: a status outside [200,300) fails the call with the body's detail field
\* if present, otherwise its error field, and "Request failed (<status>)" only
\* when the body is no JSON or carries neither field, for both response kinds.
C5_ServerMessageShown ==
    (mounted /\ ev.op = "load" /\ ~(ev.status >= 200 /\ ev.status < 300))
      => error = ExpectedMessage(ev.status, ev.body)

\* C6: each user-initiated dry run or annotate issues exactly one request;
\* a network error or a timeout fails the call with "Network error" or
\* "Request timed out" as the visible message, and no request is issued that
\* the user did not start.
C6_OneRequestPerAction ==
    /\ Len(sent) = clicks
    /\ Cardinality(xhrs) <= clicks
    /\ (mounted /\ ev.op = "error") => (error = "Network error" /\ xhrs = {})
    /\ (mounted /\ ev.op = "timeout") => (error = "Request timed out" /\ xhrs = {})
C6_Witness ==
    /\ mounted
    /\ ev.op = "timeout"
    /\ clicks = 2
    /\ Len(sent) = 2
    /\ error = "Request timed out"

\* C15: at no time are two upload requests of the widget in flight: while a
\* request is in flight loading or downloading is true, and then neither
\* action can be taken.
C15_OneUploadAtATime ==
    /\ Cardinality(xhrs) <= 1
    /\ (mounted /\ xhrs # {}) => (loading \/ downloading)
    /\ (loading \/ downloading) => (~ENABLED ClickDryRun /\ ~ENABLED ClickAnnotate)
C15_Witness ==
    /\ mounted
    /\ Cardinality(xhrs) = 1
    /\ downloading
    /\ file # NoFile
    /\ Len(sent) = 1
    /\ phase = "processing"

\* C16: while a transfer is in flight (phase upload or processing) no pick
\* or drop changes the selected file, the issue list or the download URL.
C16_NoSelectionDuringTransfer ==
    [][(phase \in {"upload", "processing"} /\ ev'.op = "pick")
         => (file' = file /\ issues' = issues /\ downloadUrl' = downloadUrl)]_vars

\* C17, as claimed: the URL held is released before a new one is created and
\* on teardown, at most one created and not yet revoked URL exists at any
\* time, and the URL offered for download is never a revoked one.
C17_ReleasedBeforeCreate ==
    [][/\ nextUrl' # nextUrl => liveUrls = {}
       /\ (mounted /\ ~mounted') => liveUrls' = {}
       /\ Cardinality(liveUrls') <= 1
       /\ (mounted' /\ downloadUrl' # NoUrl) => downloadUrl' \in liveUrls']_vars
\* C17, amended: the URL held is released when a file is accepted, on
\* teardown, and when a newer URL replaces it (with the commit of the new
\* URL, after that one was created); so after every task at most one created
\* and not yet revoked URL exists, and the URL offered for download is the
\* live one.
C17_ReleasedWhenReplaced ==
    [][/\ nextUrl' # nextUrl => liveUrls' = {nextUrl}
       /\ (mounted /\ ~mounted') => liveUrls' = {}
       /\ Cardinality(liveUrls') <= 1
       /\ mounted' => liveUrls' = (IF downloadUrl' = NoUrl THEN {} ELSE {downloadUrl'})]_vars
C17_Witness ==
    /\ mounted
    /\ ev.op = "load"
    /\ nextUrl = 3
    /\ downloadUrl = 2
    /\ liveUrls = {2}
    /\ file # NoFile

\* C21: phase becomes processing exactly when the request body has been
\* sent completely, before any response is handled, and in no other
\* situation: a transfer whose upload ends by a network error or a timeout
\* before all bytes were sent never shows processing.
C21_ProcessingOnlyWhenBodySent ==
    [][/\ (phase' = "processing" /\ phase # "processing") =>
             /\ ev'.op = "uploadend"
             /\ \E x \in xhrs' : x.upDone /\ x.loaded = x.total
       /\ (mounted /\ ev'.op = "uploadend") => phase' = "processing"
       /\ (ev'.op \in {"error", "timeout"} /\ \E x \in xhrs : ~x.upDone) =>
             /\ phase' # "processing"
             /\ \A i \in 1..Len(phases') : phases'[i] # "processing"
       /\ (mounted /\ ev'.op = "load") => phase' # "processing"]_vars
C21_Witness ==
    /\ mounted
    /\ ev.op = "timeout"
    /\ phases = <<"idle", "upload", "idle">>
    /\ error = "Request timed out"
    /\ Len(sent) = 2

\* C22: for every progress event with a known total the percentage emitted
\* is floor(bytesSent / totalBytes * 100), so that 100 is emitted only when
\* all bytes were sent, and no percentage is emitted for an event whose total
\* is not known.
C22_PctIsFloor ==
    (mounted /\ ev.op \in {"progress", "uploadend"}) =>
        \A x \in xhrs :
            /\ x.total > 0 =>
                  /\ uploadPct = (100 * x.loaded) \div x.total
                  /\ uploadPct = 100 => x.loaded = x.total
            /\ x.total = 0 => (uploadPct = 0 /\ pcts = <<0>>)
\* C22, amended: the percentage emitted is bytesSent / totalBytes * 100
\* rounded to the nearest integer, not rounded down; no percentage is
\* emitted for an event whose total is not known.
C22_PctIsRounded ==
    (mounted /\ ev.op \in {"progress", "uploadend"}) =>
        \A x \in xhrs :
            /\ x.total > 0 =>
                  /\ 2 * x.total * uploadPct <= 200 * x.loaded + x.total
                  /\ 200 * x.loaded + x.total < 2 * x.total * (uploadPct + 1)
            /\ x.total = 0 => (uploadPct = 0 /\ pcts = <<0>>)
C22_Witness ==
    /\ mounted
    /\ ev.op = "progress"
    /\ \E x \in xhrs : x.total = 3 /\ x.loaded = 2
    /\ uploadPct = 67

\* C27: an issue list displayed is the dry-run result of the file now
\* selected and a download URL held is the annotate result of the file now
\* selected: selecting a new file clears both, and the completion of a
\* transfer started for an earlier file does not bring back that file's
\* results.
C27_ResultsOfSelectedFile ==
    [][/\ (mounted /\ issues' # NoIssues) => issues'.of = file'
       /\ (mounted /\ downloadUrl' # NoUrl /\ downloadUrl' # downloadUrl) =>
             ev'.file = file'
       /\ (ev'.op = "pick" /\ file' # file) =>
             (issues' = NoIssues /\ downloadUrl' = NoUrl)]_vars

\* C28: a pick or drop rejected by the file guards changes only the error
\* message: the file selected before, the issue list and the download URL
\* are unchanged and nothing is revoked; so a dry run or annotate started
\* next, with the validation message of the rejected file on display,
\* uploads the file selected before.
C28_RejectedPickChangesOnlyError ==
    [][/\ (ev'.op = "pick" /\ ~PassesGuards(ev'.file)) =>
             /\ error' \in {"Please choose a .pdf file", "PDF is larger than 50 MB limit"}
             /\ <<file', issues', downloadUrl', liveUrls'>>
                  = <<file, issues, downloadUrl, liveUrls>>
             /\ <<uploadPct', phase', downloading', loading', xhrs', sent'>>
                  = <<uploadPct, phase, downloading, loading, xhrs, sent>>
       /\ (/\ ev.op = "pick" /\ ~PassesGuards(ev.file)
           /\ ev'.op \in {"doDryRun", "doAnnotate"}) =>
             /\ error \in {"Please choose a .pdf file", "PDF is larger than 50 MB limit"}
             /\ file # ev.file
             /\ Len(sent') = Len(sent) + 1
             /\ sent'[Len(sent')].file = file]_vars
C28_Witness ==
    /\ ev.op = "pick"
    /\ ~PassesGuards(ev.file)
    /\ error = "PDF is larger than 50 MB limit"
    /\ file # NoFile
    /\ issues # NoIssues
    /\ downloadUrl # NoUrl
    /\ liveUrls = {downloadUrl}
    /\ ~ActionsDisabled

\* C29: every object URL created by doAnnotate is revoked in the end: once
\* the widget has been torn down and every request in flight has settled, no
\* created URL is left unreleased, also when the widget was unmounted while
\* the annotate request was in flight.
C29_NoUrlLeftAfterTeardown ==
    (~mounted /\ xhrs = {}) => liveUrls = {}

(***************************************************************************)
(* The download name (doAnnotate, lines 142-146).  Strings are sequences   *)
(* of characters.                                                          *)
(***************************************************************************)
UpperCase == <<"A", "B", "C", "D", "E", "F", "G", "H", "I", "J", "K", "L", "M",
               "N", "O", "P", "Q", "R", "S", "T", "U", "V", "W", "X", "Y", "Z">>
LowerCase == <<"a", "b", "c", "d", "e", "f", "g", "h", "i", "j", "k", "l", "m",
               "n", "o", "p", "q", "r", "s", "t", "u", "v", "w", "x", "y", "z">>
\* String.prototype.toLowerCase (and the i flag of a pattern), per character.
toLowerCase(str) ==
    [i \in 1..Len(str) |->
        IF \E k \in 1..26 : UpperCase[k] = str[i]
        THEN LowerCase[CHOOSE k \in 1..26 : UpperCase[k] = str[i]]
        ELSE str[i]]

FilenameEq == <<"f", "i", "l", "e", "n", "a", "m", "e", "=">>
AnnotatedPrefix == <<"a", "n", "n", "o", "t", "a", "t", "e", "d", "_">>

\* The headers a response may carry: none, one without a filename attribute,
\* or one with the attribute written in either case, quoted or not, with
\* something before and after it.
HeaderValues == { <<"r", "e", "p", "o", "r", "t", " ", "1", ".", "p", "d", "f">>,
                  <<"a", "/", "b", ":", "c">>,
                  <<"x", "\r", "\n", "y">>,
                  <<"a", ";", "b">>,
                  <<"?", "*", "<", ">", "|", "\\">>,
                  <<>> }
HeaderParts ==
    [has : {FALSE}, pre : {<<>>, <<"a", "t", "t", "a", "c", "h", "m", "e", "n", "t">>},
     key : {FilenameEq}, quoted : {FALSE}, val : {<<>>}, post : {<<>>}]
    \cup
    [has : {TRUE}, pre : {<<>>, <<"a", "t", "t", "a", "c", "h", "m", "e", "n", "t", ";", " ">>},
     key : {FilenameEq, <<"F", "i", "l", "e", "N", "a", "m", "e", "=">>},
     quoted : BOOLEAN, val : HeaderValues,
     post : {<<>>, <<";", " ", "s", "i", "z", "e", "=", "1">>}]
HeaderOf(parts) ==
    IF ~parts.has THEN parts.pre
    ELSE parts.pre \o parts.key
           \o (IF parts.quoted THEN <<"\"">> ELSE <<>>)
           \o parts.val
           \o (IF parts.quoted THEN <<"\"">> ELSE <<>>)
           \o parts.post
OrigNames == { <<"a", ".", "p", "d", "f">>, <<"a", ":", "b", ".", "P", "D", "F">> }

\* ([^";]+) from position j: the longest run of characters other than a
\* double quote and a semicolon (the + is greedy and nothing after it can
\* fail, so the run is never shortened).
RunFrom(str, j) ==
    LET stops == {k \in j..Len(str) : str[k] \in {"\"", ";"}}
        end == IF stops = {} THEN Len(str)
               ELSE (CHOOSE k \in stops : \A l \in stops : k <= l) - 1
    IN  IF j > Len(str) THEN <<>> ELSE SubSeq(str, j, end)
\* The capture of /filename="?([^";]+)"?/i tried at position i, <<>> when
\* the pattern does not match there: "? takes a quote when there is one, and
\* gives it back when the class then matches nothing (where it fails too).
CaptureAt(str, i) ==
    IF i + 8 > Len(str) \/ toLowerCase(SubSeq(str, i, i + 8)) # FilenameEq THEN <<>>
    ELSE IF i + 9 <= Len(str) /\ str[i + 9] = "\"" THEN RunFrom(str, i + 10)
    ELSE RunFrom(str, i + 9)
\* cd.match(/filename="?([^";]+)"?/i)?.[1]: the capture of the leftmost
\* match, <<>> (undefined) without a match.
MatchFilename(str) ==
    LET at == {i \in 1..Len(str) : CaptureAt(str, i) # <<>>}
    IN  IF at = {} THEN <<>>
        ELSE CaptureAt(str, CHOOSE i \in at : \A k \in at : i <= k)

\* Faulty variant: the replacement without the g flag (first match only).
ReplaceHostileFirst(str) ==
    LET at == {i \in 1..Len(str) : str[i] \in {"\\", "/", ":", "*", "?", "\"", "<", ">", "|"}}
    IN  [i \in 1..Len(str) |->
           IF at # {} /\ i = (CHOOSE k \in at : \A l \in at : k <= l)
           THEN "_" ELSE str[i]]
\* .replace(/[\\/:*?"<>|]/g, "_")
ReplaceHostile(str) ==
    [i \in 1..Len(str) |->
        IF str[i] \in {"\\", "/", ":", "*", "?", "\"", "<", ">", "|"}
        THEN "_" ELSE str[i]]
\* .replace(/[\r\n]/g, "")
RemoveLineBreaks(str) == SelectSeq(str, LAMBDA c : c \notin {"\r", "\n"})
\* const sanitize = (s) => s.replace(/[\r\n]/g, "").replace(/[\\/:*?"<>|]/g, "_")
sanitize(str) == ReplaceHostile(RemoveLineBreaks(str))

\* m?.[1] || `annotated_${file.name}`
rawName(header, fileName) ==
    IF MatchFilename(header) # <<>> THEN MatchFilename(header)
    ELSE AnnotatedPrefix \o fileName

NameAtRest ==
    /\ cdParts = [has |-> FALSE, pre |-> <<>>, key |-> FilenameEq,
                  quoted |-> FALSE, val |-> <<>>, post |-> <<>>]
    /\ cd = <<>>
    /\ origName = <<"a", ".", "p", "d", "f">>
    /\ aDownload = <<>>
    /\ named = FALSE
\* An annotate response has arrived for a file.
NameInit ==
    /\ cdParts \in HeaderParts
    /\ cd = HeaderOf(cdParts)
    /\ origName \in OrigNames
    /\ aDownload = <<>>
    /\ named = FALSE
\* Lines 142-152: the name is derived and given to the anchor.
NameDownload ==
    /\ ~named
    /\ named' = TRUE
    /\ aDownload' = sanitize(rawName(cd, origName))
    /\ UNCHANGED <<cdParts, cd, origName>>

\* What the claim expects of a name: line breaks dropped, hostile characters
\* replaced; and the name a header's filename attribute carries.
RECURSIVE Cleaned(_)
Cleaned(str) ==
    IF str = <<>> THEN <<>>
    ELSE IF Head(str) \in {"\r", "\n"} THEN Cleaned(Tail(str))
    ELSE IF Head(str) \in {"\\", "/", ":", "*", "?", "\"", "<", ">", "|"}
    THEN <<"_">> \o Cleaned(Tail(str))
    ELSE <<Head(str)>> \o Cleaned(Tail(str))
NameInAttribute(parts) ==
    IF ~parts.has THEN <<>>
    ELSE IF \E k \in 1..Len(parts.val) : parts.val[k] \in {"\"", ";"}
    THEN SubSeq(parts.val, 1,
                (CHOOSE k \in 1..Len(parts.val) :
                    /\ parts.val[k] \in {"\"", ";"}
                    /\ \A l \in 1..(k - 1) : parts.val[l] \notin {"\"", ";"}) - 1)
    ELSE parts.val
\* C18: the download name contains no carriage return, no line feed and none
\* of \ / : * ? " < > | (each replaced by an underscore, line breaks
\* dropped); it is the name in the header's filename attribute (its value up
\* to the first double quote or semicolon) when there is one, and
\* annotated_<file name> otherwise.
C18_DownloadNameClean ==
    named =>
      /\ \A i \in 1..Len(aDownload) :
            aDownload[i] \notin {"\r", "\n", "\\", "/", ":", "*", "?", "\"", "<", ">", "|"}
      /\ IF NameInAttribute(cdParts) # <<>>
         THEN aDownload = Cleaned(NameInAttribute(cdParts))
         ELSE aDownload = Cleaned(AnnotatedPrefix \o origName)
C18_Witness ==
    /\ named
    /\ cdParts.has
    /\ cdParts.quoted
    /\ cdParts.val = <<"a", "/", "b", ":", "c">>
    /\ aDownload = <<"a", "_", "b", "_", "c">>

(***************************************************************************)
(* The issue view: the filter and the count by category (lines 165-184).   *)
(* A text is named by a string; Chars gives its characters.  "" is also    *)
(* the absent field (undefined), which joins and tests like "".            *)
(***************************************************************************)
Chars ==
    "" :> <<>> @@
    "grammar" :> <<"g", "r", "a", "m", "m", "a", "r">> @@
    "style" :> <<"s", "t", "y", "l", "e">> @@
    "constructor" :> <<"c", "o", "n", "s", "t", "r", "u", "c", "t", "o", "r">> @@
    "__proto__" :> <<"_", "_", "p", "r", "o", "t", "o", "_", "_">> @@
    "Teh cat" :> <<"T", "e", "h", " ", "c", "a", "t">> @@
    "typo" :> <<"t", "y", "p", "o">> @@
    "The cat" :> <<"T", "h", "e", " ", "c", "a", "t">> @@
    "long" :> <<"l", "o", "n", "g">> @@
    "Style guide" :> <<"S", "t", "y", "l", "e", " ", "g", "u", "i", "d", "e">> @@
    "shorter" :> <<"s", "h", "o", "r", "t", "e", "r">> @@
    "1" :> <<"1">> @@
    "2" :> <<"2">> @@
    " STyLE " :> <<" ", "S", "T", "y", "L", "E", " ">> @@
    "zz" :> <<"z", "z">> @@
    "cat" :> <<"c", "a", "t">>
Issues ==
    { [page |-> "1", type |-> "grammar", sentence_or_excerpt |-> "Teh cat",
       problem |-> "typo", suggestion |-> "The cat"],
      [page |-> "2", type |-> "style", sentence_or_excerpt |-> "long",
       problem |-> "", suggestion |-> "shorter"],
      [page |-> "2", type |-> "grammar", sentence_or_excerpt |-> "",
       problem |-> "Style guide", suggestion |-> ""],
      [page |-> "", type |-> "", sentence_or_excerpt |-> "",
       problem |-> "", suggestion |-> ""],
      [page |-> "1", type |-> "constructor", sentence_or_excerpt |-> "",
       problem |-> "", suggestion |-> ""],
      [page |-> "1", type |-> "__proto__", sentence_or_excerpt |-> "",
       problem |-> "", suggestion |-> ""] }
Queries == {"", "style", " STyLE ", "cat", "zz"}
IssueLists == UNION {[1..n -> Issues] : n \in 0..MaxIssues}

\* String.prototype.trim, for texts whose only white space is the space.
RECURSIVE trimStart(_)
trimStart(str) ==
    IF str # <<>> /\ Head(str) = " " THEN trimStart(Tail(str)) ELSE str
RECURSIVE trimEnd(_)
trimEnd(str) ==
    IF str # <<>> /\ str[Len(str)] = " "
    THEN trimEnd(SubSeq(str, 1, Len(str) - 1)) ELSE str
trim(str) == trimEnd(trimStart(str))
\* String.prototype.includes
includes(str, part) ==
    \E i \in 1..(Len(str) - Len(part) + 1) : SubSeq(str, i, i + Len(part) - 1) = part
\* Faulty variant: the problem field left out of the text searched.
joinFieldsNoProblem(it) ==
    Chars[it.page] \o <<" ">> \o Chars[it.type] \o <<" ">>
      \o Chars[it.sentence_or_excerpt] \o <<" ">> \o Chars[it.suggestion]
\* [it.page, it.type, it.sentence_or_excerpt, it.problem, it.suggestion].join(" ")
joinFields(it) ==
    Chars[it.page] \o <<" ">> \o Chars[it.type] \o <<" ">>
      \o Chars[it.sentence_or_excerpt] \o <<" ">> \o Chars[it.problem]
      \o <<" ">> \o Chars[it.suggestion]
\* The useMemo of lines 165-175.
filteredOf(list, text) ==
    LET q == toLowerCase(trim(Chars[text]))
    IN  IF q = <<>> THEN list
        ELSE SelectSeq(list, LAMBDA it : includes(toLowerCase(joinFields(it)), q))

\* The values acc[k] takes: undefined, a number n, or the string an object
\* or a function concatenated with n times "1" gives.
Undefined == [kind |-> "undefined", n |-> 0]
\* The property names every object inherits from Object.prototype (those of
\* them that a category may spell), all with a truthy value.
Inherited == {"constructor", "__proto__"}
\* acc[k]: the own property, else the inherited one.
Get(acc, k) ==
    IF k \in DOMAIN acc THEN acc[k]
    ELSE IF k \in Inherited THEN [kind |-> "string", n |-> 0]
    ELSE Undefined
\* (v || 0) + 1: addition for undefined and numbers, concatenation otherwise.
PlusOne(v) ==
    IF v.kind = "undefined" THEN [kind |-> "number", n |-> 1]
    ELSE [kind |-> v.kind, n |-> v.n + 1]
\* acc[k] = v: the __proto__ setter ignores a value that is no object.
Put(acc, k, v) ==
    IF k = "__proto__" THEN acc
    ELSE [x \in DOMAIN acc \cup {k} |-> IF x = k THEN v ELSE acc[x]]
\* String(it.type || "other")
KeyOf(it) == IF it.type = "" THEN "other" ELSE it.type
\* issues.reduce((acc, it) => { ...; return acc }, {}) of lines 179-183
RECURSIVE reduce(_, _)
reduce(acc, list) ==
    IF list = <<>> THEN acc
    ELSE reduce(Put(acc, KeyOf(Head(list)), PlusOne(Get(acc, KeyOf(Head(list))))),
                Tail(list))
EmptyObject == [x \in {} |-> Undefined]
countsOf(list) == reduce(EmptyObject, list)

ViewInit ==
    /\ issueItems = <<>>
    /\ query = ""
    /\ filtered = <<>>
    /\ countsByType = EmptyObject
    /\ arrived = <<>>
\* setIssues with a dry-run result (line 118), and the render that follows.
\* issues is null when a result arrives: doDryRun cleared it (line 110).
setIssues(list) ==
    /\ issueItems = <<>>
    /\ issueItems' = list
    /\ filtered' = filteredOf(list, query)
    /\ countsByType' = countsOf(list)
    /\ arrived' = list
    /\ UNCHANGED query
\* setQuery from the filter input's onChange (line 274), and the render that
\* follows: countsByType does not depend on query and is not recomputed.
setQuery(text) ==
    /\ query' = text
    /\ filtered' = filteredOf(issueItems, text)
    /\ UNCHANGED <<issueItems, countsByType, arrived>>
\* setIssues(null), by doDryRun (line 110) and onPickFileDirect (line 55).
clearIssues ==
    /\ issueItems # <<>>
    /\ issueItems' = <<>>
    /\ filtered' = <<>>
    /\ countsByType' = EmptyObject
    /\ arrived' = <<>>
    /\ UNCHANGED query
IssuesArrive == \E list \in IssueLists : setIssues(list)
QueryTyped == \E text \in Queries : setQuery(text)

\* The categories of a list as the claims read them, and how many issues of
\* the list carry a category.
CategoryOf(it) == IF it.type = "" THEN "other" ELSE it.type
Carrying(list, k) == Cardinality({i \in 1..Len(list) : CategoryOf(list[i]) = k})
RECURSIVE SumOver(_, _)
SumOver(f, keys) ==
    IF keys = {} THEN 0
    ELSE LET k == CHOOSE x \in keys : TRUE
         IN  (IF f[k].kind = "number" THEN f[k].n ELSE 0) + SumOver(f, keys \ {k})
\* C19: the count by category maps each category to the number of issues
\* carrying it (issues without a category under "other"), its counts sum to
\* the number of issues, and it is computed over the whole list whatever the
\* filter text; categories grammar, grammar, style give {grammar: 2,
\* style: 1} and the filter text style then leaves exactly the style issue.
C19_CountsByCategory ==
    /\ DOMAIN countsByType = {CategoryOf(issueItems[i]) : i \in 1..Len(issueItems)}
    /\ \A k \in DOMAIN countsByType :
          countsByType[k] = [kind |-> "number", n |-> Carrying(issueItems, k)]
    /\ SumOver(countsByType, DOMAIN countsByType) = Len(issueItems)
    /\ (/\ Len(issueItems) = 3
        /\ issueItems[1].type = "grammar" /\ issueItems[1].problem = "typo"
        /\ issueItems[2].type = "grammar" /\ issueItems[2].problem = "typo"
        /\ issueItems[3].type = "style")
        => /\ countsByType = ("grammar" :> [kind |-> "number", n |-> 2]
                               @@ "style" :> [kind |-> "number", n |-> 1])
           /\ query = "style" => filtered = <<issueItems[3]>>

\* The claims' reading of the text searched (the five fields in order, a
\* space between them, an absent field empty), of the text looked for, and
\* of the issues that match.
Haystack(it) ==
    toLowerCase(Chars[it.page] \o <<" ">> \o Chars[it.type] \o <<" ">>
                  \o Chars[it.sentence_or_excerpt] \o <<" ">>
                  \o Chars[it.problem] \o <<" ">> \o Chars[it.suggestion])
Needle == toLowerCase(trim(Chars[query]))
Matching ==
    {i \in 1..Len(issueItems) :
        Needle = <<>> \/ includes(Haystack(issueItems[i]), Needle)}
\* C23: the filtered view is the subsequence, in the order of the list, of
\* the issues whose page, category, excerpt, problem and suggestion together
\* contain the trimmed filter text, letter case ignored (all issues when the
\* trimmed text is empty, an absent field counting as empty), and computing
\* it never changes the issue list.
C23_FilteredSubsequence ==
    /\ LET m == Matching
           nth == [k \in 1..Cardinality(m) |->
                     CHOOSE i \in m : Cardinality({j \in m : j <= i}) = k]
       IN  filtered = [k \in 1..Cardinality(m) |-> issueItems[nth[k]]]
    /\ issueItems = arrived
C23_Witness ==
    /\ Len(issueItems) = 3
    /\ query = " STyLE "
    /\ filtered = <<issueItems[1], issueItems[3]>>
    /\ issueItems[1].type = "grammar"
    /\ issueItems[1].problem = "Style guide"
    /\ issueItems[2].problem = "typo"
    /\ issueItems[3].type = "style"

(***************************************************************************)
(* LeadCapture (LeadCapture.jsx:5-35) and postJSON (lib/api).              *)
(***************************************************************************)
FieldValues == { <<>>, <<" ">>, <<"A", "n", "n">> }
Forms == [name : FieldValues, email : FieldValues]
\* What a POST /lead ends in: a response with a status, or no response.
Answers == [kind : {"response"}, status : Statuses]
             \cup {[kind |-> "failure", status |-> 0]}
MsgRequired == "Name and email are required."
MsgThanks == "Thanks! You now have access."
MsgWrong == "Something went wrong."

\* !form.name.trim()
IsBlank(str) == trim(str) = <<>>
\* Faulty variant: a response taken as success whatever its status.
ResOkAlways(code) == TRUE
\* res.ok
ResOk(code) == code >= 200 /\ code <= 299

LeadInit ==
    /\ form = [name |-> <<>>, email |-> <<>>]
    /\ leadStatus = [loading |-> FALSE, msg |-> "", ok |-> "null"]
    /\ posts = 0
    /\ inFlight = 0
    /\ successCalls = 0
    /\ submits = [given |-> 0, blank |-> 0]
    /\ answers = [ok |-> 0, failed |-> 0]
    /\ lastLead = [op |-> "init", answer |-> [kind |-> "failure", status |-> 0]]

\* onChange of the name and email inputs.
onChange(field, value) ==
    /\ form[field] # value
    /\ form' = [form EXCEPT ![field] = value]
    /\ lastLead' = [lastLead EXCEPT !.op = "change"]
    /\ UNCHANGED <<leadStatus, posts, inFlight, successCalls, submits, answers>>

\* onSubmit up to its return or its await; the submit button is disabled
\* while status.loading.
onSubmit ==
    /\ ~leadStatus.loading
    /\ submits.given + submits.blank < MaxSubmits
    /\ IF IsBlank(form.name) \/ IsBlank(form.email)
       THEN /\ leadStatus' = [loading |-> FALSE, msg |-> MsgRequired, ok |-> "false"]
            /\ submits' = [submits EXCEPT !.blank = @ + 1]
            /\ lastLead' = [lastLead EXCEPT !.op = "rejected"]
            /\ UNCHANGED <<posts, inFlight>>
       ELSE /\ leadStatus' = [loading |-> TRUE, msg |-> "", ok |-> "null"]
            /\ submits' = [submits EXCEPT !.given = @ + 1]
            /\ posts' = posts + 1
            /\ inFlight' = inFlight + 1
            /\ lastLead' = [lastLead EXCEPT !.op = "posted"]
    /\ UNCHANGED <<form, successCalls, answers>>

\* The fetch of postJSON settles and onSubmit continues: postJSON throws
\* when fetch rejects or the response is not ok, and resolves otherwise
\* (a body that is no JSON becomes {}).
postSettled(answer) ==
    /\ inFlight > 0
    /\ inFlight' = inFlight - 1
    /\ lastLead' = [op |-> "settled", answer |-> answer]
    /\ IF answer.kind = "response" /\ ResOk(answer.status)
       THEN /\ leadStatus' = [loading |-> FALSE, msg |-> MsgThanks, ok |-> "true"]
            /\ successCalls' = successCalls + 1
            /\ answers' = [answers EXCEPT !.ok = @ + 1]
       ELSE /\ leadStatus' = [loading |-> FALSE, msg |-> MsgWrong, ok |-> "false"]
            /\ answers' = [answers EXCEPT !.failed = @ + 1]
            /\ UNCHANGED successCalls
    /\ UNCHANGED <<form, posts, submits>>

FieldChanged == \E field \in {"name", "email"}, value \in FieldValues : onChange(field, value)
PostSettled == \E answer \in Answers : postSettled(answer)

\* A field the claims call blank: nothing but spaces.
OnlySpaces(str) == \A i \in 1..Len(str) : str[i] = " "
\* C20: one POST /lead per submit with name and email not blank and none for
\* a submit with a blank one, which fails at once; the outcome is success
\* (ok true, onSuccess invoked once) exactly when the response status is 2xx,
\* any other answer or a transport failure is a failure without onSuccess;
\* loading is false after every outcome.
C20_LeadSubmit ==
    /\ posts = submits.given
    /\ inFlight \in {0, 1}
    /\ leadStatus.loading <=> (inFlight = 1)
    /\ successCalls + answers.failed + inFlight = posts
    /\ lastLead.op = "posted" => (~OnlySpaces(form.name) /\ ~OnlySpaces(form.email))
    /\ lastLead.op = "rejected" =>
          /\ OnlySpaces(form.name) \/ OnlySpaces(form.email)
          /\ leadStatus = [loading |-> FALSE, ok |-> "false",
                           msg |-> "Name and email are required."]
    /\ lastLead.op = "settled" =>
          /\ ~leadStatus.loading
          /\ (leadStatus.ok = "true") <=>
               (/\ lastLead.answer.kind = "response"
                /\ lastLead.answer.status \in 200..299)
          /\ leadStatus.ok \in {"true", "false"}
    /\ successCalls = answers.ok
C20_Witness ==
    /\ lastLead.op = "settled"
    /\ lastLead.answer.status = 299
    /\ leadStatus.ok = "true"
    /\ successCalls = 1
    /\ answers.failed = 1
    /\ submits = [given |-> 2, blank |-> 1]
    /\ posts = 2

(***************************************************************************)
(* The Agents page (pages/Agents.jsx): the gate in front of an agent.      *)
(* LeadCaptureModal renders its children, the LeadCapture form, while open *)
(* is true; a form that is not rendered is unmounted, and the requests it  *)
(* has in flight go on without it.                                         *)
(***************************************************************************)
\* The agents with a card on the page (lines 31-41) and their routes.
Agents == {"proofreader"}
RouteOf(agent) == "/agents/" \o agent

GateInit ==
    /\ modalOpen = FALSE
    /\ pendingAgent = Null
    /\ agentsMounted = TRUE
    /\ navigated = <<>>
    /\ orphans = 0

\* The form leaves the page: its state is gone, its requests are not.
LeadUnmount ==
    /\ orphans' = orphans + inFlight
    /\ inFlight' = 0
    /\ form' = [name |-> <<>>, email |-> <<>>]
    /\ leadStatus' = [loading |-> FALSE, msg |-> "", ok |-> "null"]

\* openGate(agent), the onTry of an agent's card.
openGate(agent) ==
    /\ agentsMounted
    /\ ~modalOpen
    /\ pendingAgent' = agent
    /\ modalOpen' = TRUE
    /\ lastLead' = [lastLead EXCEPT !.op = "openGate"]
    /\ UNCHANGED <<agentsMounted, navigated, orphans>>
    /\ UNCHANGED <<form, leadStatus, posts, inFlight, successCalls, submits, answers>>

\* The modal's onClose: () => setModalOpen(false).
onClose ==
    /\ agentsMounted
    /\ modalOpen
    /\ modalOpen' = FALSE
    /\ LeadUnmount
    /\ lastLead' = [lastLead EXCEPT !.op = "onClose"]
    /\ UNCHANGED <<pendingAgent, agentsMounted, navigated>>
    /\ UNCHANGED <<posts, successCalls, submits, answers>>

\* Faulty variant: the route is changed with the modal left open.
handleLeadSuccessKeepOpen ==
    /\ UNCHANGED modalOpen
    /\ navigated' = Append(navigated, RouteOf(pendingAgent))
    /\ agentsMounted' = FALSE
    /\ UNCHANGED pendingAgent
\* handleLeadSuccess: pendingAgent is that of the render the form was given
\* its onSuccess in, the agent of the gate opened last; the new route takes
\* the page's place.
handleLeadSuccess ==
    /\ modalOpen' = FALSE
    /\ navigated' = IF pendingAgent # Null
                    THEN Append(navigated, RouteOf(pendingAgent)) ELSE navigated
    /\ agentsMounted' = FALSE
    /\ UNCHANGED pendingAgent

\* The form in the open modal is filled in and submitted.
GateChange == agentsMounted /\ modalOpen /\ FieldChanged /\ UNCHANGED gateVars
GateSubmit == agentsMounted /\ modalOpen /\ onSubmit /\ UNCHANGED gateVars
\* The request of the form on display settles.
GateSettled ==
    \E answer \in Answers :
        /\ postSettled(answer)
        /\ IF answer.kind = "response" /\ ResOk(answer.status)
           THEN handleLeadSuccess /\ UNCHANGED orphans
           ELSE UNCHANGED gateVars
\* The request of a form that was unmounted settles: its setStatus calls
\* change nothing, its onSuccess is still called.
OrphanSettled ==
    \E answer \in Answers :
        /\ orphans > 0
        /\ lastLead' = [op |-> "settled", answer |-> answer]
        /\ IF answer.kind = "response" /\ ResOk(answer.status)
           THEN /\ handleLeadSuccess
                /\ successCalls' = successCalls + 1
                /\ answers' = [answers EXCEPT !.ok = @ + 1]
                /\ IF modalOpen
                   THEN /\ orphans' = orphans - 1 + inFlight
                        /\ inFlight' = 0
                        /\ form' = [name |-> <<>>, email |-> <<>>]
                        /\ leadStatus' = [loading |-> FALSE, msg |-> "", ok |-> "null"]
                   ELSE /\ orphans' = orphans - 1
                        /\ UNCHANGED <<inFlight, form, leadStatus>>
           ELSE /\ orphans' = orphans - 1
                /\ answers' = [answers EXCEPT !.failed = @ + 1]
                /\ UNCHANGED <<modalOpen, pendingAgent, agentsMounted, navigated,
                               successCalls, inFlight, form, leadStatus>>
        /\ UNCHANGED <<posts, submits>>
GateOpened == \E agent \in Agents : openGate(agent)

\* A step that calls navigate, and a step in which a submission succeeds.
NavStep == Len(navigated') > Len(navigated)
SuccessStep == answers'.ok = answers.ok + 1
DedupWindowMs == 30000
NoReport == [key |-> "", ts |-> -1]     \* sessionStorage.getItem(k) === null

Messages == {"boom", "oops"}            \* error.message of the faults
Paths == {"/", "/agents"}               \* window.location.pathname
Deltas == {15500}                       \* milliseconds between two tasks
Outcomes == {"ok", "failed"}            \* of a send: resolved, or thrown
Kinds == {"auto", "manual"}             \* of a send: who started it
NoAuto == [path |-> "", message |-> "", ts |-> -1, gap |-> -1, afterSkip |-> FALSE]
\* A caller-supplied hook (this.props.onError, this.props.onReset) at one
\* call: the prop is no function, the hook returns, or the hook throws.
Hooks == {"none", "returns", "throws"}

\* `${window.location.pathname}|${message || ""}`
ReportKey(path, message) == path \o "|" \o message

\* last && last.key === key && now - last.ts < 30_000
IsDuplicate(last, key, t) ==
    last # NoReport /\ last.key = key /\ t - last.ts < DedupWindowMs

\* Faulty variant: setItem moved before the test, so suppressed faults refresh ts.
StoredAfterAlways(last, key, t) == [key |-> key, ts |-> t]
\* Faulty variant: the record written once and never refreshed.
StoredAfterOnce(last, key, t) ==
    IF last = NoReport THEN [key |-> key, ts |-> t] ELSE last
\* The record shouldSkipDuplicate leaves in sessionStorage: it returns before
\* setItem when the fault is a duplicate.
StoredAfter(last, key, t) ==
    IF IsDuplicate(last, key, t) THEN last ELSE [key |-> key, ts |-> t]

\* shouldSkipDuplicate(message)'s result; any sessionStorage access that
\* throws lands in the catch, which returns false.
shouldSkipDuplicate(message) ==
    storageOK /\ IsDuplicate(lastReport, ReportKey(pathname, message), now)

\* sessionStorage["eb-last-report"] after shouldSkipDuplicate(message).
StorageAfter(message) ==
    IF storageOK
    THEN StoredAfter(lastReport, ReportKey(pathname, message), now)
    ELSE lastReport

InFlight == pending["auto"] + pending["manual"]

EbInit ==
    /\ hasError = FALSE
    /\ ebError = Null
    /\ reported = FALSE
    /\ reporting = FALSE
    /\ reportFailed = FALSE
    /\ autoReport \in BOOLEAN
    /\ now = 0
    /\ pathname = "/"
    /\ storageOK \in BOOLEAN
    /\ lastReport = NoReport
    /\ pending = [k \in Kinds |-> 0]
    /\ skipped = FALSE
    /\ autoAt = [pm \in Paths \X Messages |-> -1]
    /\ lastAuto = NoAuto
    /\ ticks = 0
    /\ navs = 0
    /\ trace = <<>>
    /\ unhandled = FALSE

\* if (typeof hook === "function") { try { hook(...) } catch {} }: the calls
\* made, and whether what the hook throws stays inside the catch.
HookCalls(name, hook) ==
    IF hook = "none" THEN <<>>
    ELSE IF hook = "returns" THEN <<name>>
    ELSE <<name, "catch">>
\* Faulty variant: the hook called outside a try block.
SwallowedNoTry(hook) == hook # "throws"
Swallowed(hook) == TRUE

\* Faulty variant: the opt-out never taken.
OptedOutNever == FALSE
\* this.props.autoReport === false
OptedOut == autoReport = FALSE

\* sendReport(payload) up to its await: fetch has been called.
sendReport(kind) ==
    pending' = [pending EXCEPT ![kind] = @ + 1]

\* A fault surfaces from the children, which render only while the boundary
\* is healthy: getDerivedStateFromError, then componentDidCatch with the
\* setState callback that starts the send.
componentDidCatch(message, hook) ==
    /\ ~hasError
    /\ InFlight < MaxPending
    /\ hasError' = TRUE
    /\ ebError' = message
    /\ unhandled' = (unhandled \/ ~Swallowed(hook))
    /\ IF ~Swallowed(hook)
       THEN /\ trace' = <<"onError">>
            /\ UNCHANGED <<reporting, reportFailed, lastReport, pending, skipped,
                           autoAt, lastAuto>>
       ELSE IF OptedOut
       THEN /\ trace' = HookCalls("onError", hook) \o <<"autoReport">>
            /\ UNCHANGED <<reporting, reportFailed, lastReport, pending, skipped,
                           autoAt, lastAuto>>
       ELSE IF shouldSkipDuplicate(message)
       THEN /\ trace' = HookCalls("onError", hook)
                           \o <<"autoReport", "shouldSkipDuplicate">>
            /\ skipped' = TRUE
            /\ lastReport' = StorageAfter(message)
            /\ UNCHANGED <<reporting, reportFailed, pending, autoAt, lastAuto>>
       ELSE /\ trace' = HookCalls("onError", hook)
                           \o <<"autoReport", "shouldSkipDuplicate", "setState",
                                "sendReport">>
            /\ lastReport' = StorageAfter(message)
            /\ reporting' = TRUE
            /\ reportFailed' = FALSE
            /\ sendReport("auto")
            /\ skipped' = FALSE
            /\ autoAt' = [autoAt EXCEPT ![<<pathname, message>>] = now]
            /\ lastAuto' = [path |-> pathname, message |-> message, ts |-> now,
                            gap |-> IF autoAt[<<pathname, message>>] < 0 THEN -1
                                    ELSE now - autoAt[<<pathname, message>>],
                            afterSkip |-> skipped]
    /\ UNCHANGED <<reported, autoReport, now, pathname, storageOK, ticks, navs>>

\* Faulty variant: a send without a rejection handler.
sendSettledNoCatch(kind, outcome) ==
    /\ pending[kind] > 0
    /\ pending' = [pending EXCEPT ![kind] = @ - 1]
    /\ IF outcome = "ok"
       THEN reported' = TRUE /\ reporting' = FALSE /\ UNCHANGED unhandled
       ELSE unhandled' = TRUE /\ UNCHANGED <<reported, reporting>>
    /\ trace' = <<"setState">>
    /\ UNCHANGED <<hasError, ebError, reportFailed, autoReport, now, pathname,
                   storageOK, lastReport, skipped, autoAt, lastAuto, ticks, navs>>
\* The promise of a sendReport settles: it resolved (ok), or it threw because
\* fetch rejected or the answer was not ok (failed); the continuation of
\* componentDidCatch (lines 91-92) or handleManualReport (117-119) runs.
sendSettled(kind, outcome) ==
    /\ pending[kind] > 0
    /\ pending' = [pending EXCEPT ![kind] = @ - 1]
    /\ reporting' = FALSE
    /\ IF outcome = "ok"
       THEN reported' = TRUE /\ UNCHANGED reportFailed
       ELSE reportFailed' = TRUE /\ UNCHANGED reported
    /\ trace' = <<"setState">>
    /\ UNCHANGED <<hasError, ebError, autoReport, now, pathname, storageOK,
                   lastReport, skipped, autoAt, lastAuto, ticks, navs, unhandled>>

\* handleReset, from the "Try again" button of the fallback view.
handleReset(hook) ==
    /\ hasError
    /\ hasError' = FALSE
    /\ ebError' = Null
    /\ reported' = FALSE
    /\ reportFailed' = FALSE
    /\ trace' = <<"setState">> \o HookCalls("onReset", hook)
    /\ unhandled' = (unhandled \/ ~Swallowed(hook))
    /\ UNCHANGED <<reporting, autoReport, now, pathname, storageOK, lastReport,
                   pending, skipped, autoAt, lastAuto, ticks, navs>>

\* Faulty variant: the manual report put behind the duplicate check.
handleManualReportDeduped ==
    /\ hasError
    /\ ~reporting
    /\ InFlight < MaxPending
    /\ IF shouldSkipDuplicate(ebError)
       THEN UNCHANGED <<reporting, reportFailed, pending>>
       ELSE reporting' = TRUE /\ reportFailed' = FALSE /\ sendReport("manual")
    /\ trace' = <<"setState", "sendReport">>
    /\ UNCHANGED <<hasError, ebError, reported, autoReport, now, pathname,
                   storageOK, lastReport, skipped, autoAt, lastAuto, ticks, navs,
                   unhandled>>
\* handleManualReport up to its await, from the report button of the fallback
\* view, which is disabled while reporting.
handleManualReport ==
    /\ hasError
    /\ ~reporting
    /\ InFlight < MaxPending
    /\ reporting' = TRUE
    /\ reportFailed' = FALSE
    /\ sendReport("manual")
    /\ trace' = <<"setState", "sendReport">>
    /\ UNCHANGED <<hasError, ebError, reported, autoReport, now, pathname,
                   storageOK, lastReport, skipped, autoAt, lastAuto, ticks, navs,
                   unhandled>>

\* Time passes between two tasks.
Tick(d) ==
    /\ ticks < MaxTicks
    /\ ticks' = ticks + 1
    /\ now' = now + d
    /\ UNCHANGED <<hasError, ebError, reported, reporting, reportFailed,
                   autoReport, pathname, storageOK, lastReport, pending, skipped,
                   autoAt, lastAuto, navs, trace, unhandled>>

\* The router (or the browser's history) changes the location.
Navigate(path) ==
    /\ navs < MaxNavs
    /\ navs' = navs + 1
    /\ path # pathname
    /\ pathname' = path
    /\ UNCHANGED <<hasError, ebError, reported, reporting, reportFailed,
                   autoReport, now, storageOK, lastReport, pending, skipped,
                   autoAt, lastAuto, ticks, trace, unhandled>>

FaultCaptured == \E message \in Messages, hook \in Hooks : componentDidCatch(message, hook)
ResetClicked == \E hook \in Hooks : handleReset(hook)
SendSettled == \E kind \in Kinds, outcome \in Outcomes : sendSettled(kind, outcome)
ClockAdvances == \E d \in Deltas : Tick(d)
LocationChanges == \E path \in Paths : Navigate(path)

\* The widget alone (the boundary at rest).
EbAtRest ==
    /\ EbInit
    /\ autoReport = TRUE
    /\ storageOK = TRUE

(***************************************************************************)
(* Claims about the ErrorBoundary, checked under SpecEB.                   *)
(***************************************************************************)
\* A fault is captured in this step; its message is ebError'.
FaultStep == ~hasError /\ hasError'
AutoSendStep == pending'["auto"] = pending["auto"] + 1
ManualSendStep == pending'["manual"] = pending["manual"] + 1
SettleStep == pending'["auto"] + pending'["manual"] < InFlight
\* The fault captured in this step has the path and message of the latest
\* automatic report attempt.
RepeatsLastAuto ==
    /\ FaultStep
    /\ lastAuto.ts >= 0
    /\ lastAuto.path = pathname
    /\ lastAuto.message = ebError'

\* C7: for any sequence of captured faults in a session (any interleaving of
\* pages and messages; stated here for the sessions whose storage is usable),
\* a fault whose (path, message) equals that of an automatic report attempted
\* less than 30 seconds earlier is suppressed and causes no network call.
C7_OnePerPairPerWindow ==
    [][(/\ FaultStep
        /\ storageOK
        /\ autoAt[<<pathname, ebError'>>] >= 0
        /\ now - autoAt[<<pathname, ebError'>>] < 30000)
         => pending' = pending]_vars

C9_ManualAlwaysSends ==
    /\ (hasError /\ ~reporting /\ InFlight < MaxPending) =>
          ENABLED (handleManualReport /\ ManualSendStep /\ reporting')
    /\ ~ENABLED (/\ \E outcome \in Outcomes : sendSettled("manual", outcome)
                 /\ ~((reported' \/ reportFailed') /\ ~reporting'))
C9_Witness ==
    /\ hasError
    /\ reporting
    /\ pending = [k \in Kinds |-> IF k = "manual" THEN 1 ELSE 0]
    /\ storageOK
    /\ lastReport = [key |-> pathname \o "|" \o ebError, ts |-> now]
    /\ lastAuto.ts = now

\* C10, as claimed (read for the sessions whose storage is usable): the
\* record is set to the attempt's key and time on every attempted report
\* send, automatic or manual.
C10_EveryAttemptRecorded ==
    [][(storageOK /\ (AutoSendStep \/ ManualSendStep))
         => lastReport' = [key |-> pathname \o "|" \o ebError', ts |-> now]]_vars
\* C10, amended: while session storage is usable the record is set to the
\* attempt's key and time on every attempted automatic send, whether the
\* send later succeeds or fails; a manual send and the settling of a send
\* leave it alone.  So an identical fault captured within 30 seconds of the
\* latest automatic attempt is suppressed even if that send failed.
C10_AutoAttemptsRecorded ==
    [][/\ (storageOK /\ AutoSendStep)
           => lastReport' = [key |-> pathname \o "|" \o ebError', ts |-> now]
       /\ (ManualSendStep \/ SettleStep) => lastReport' = lastReport
       /\ (/\ FaultStep
           /\ autoReport
           /\ storageOK
           /\ lastReport = [key |-> pathname \o "|" \o ebError', ts |-> lastAuto.ts]
           /\ now - lastAuto.ts < 30000)
           => pending' = pending]_vars
C10_Witness ==
    /\ hasError
    /\ skipped
    /\ reportFailed
    /\ ~reported
    /\ autoReport
    /\ storageOK
    /\ InFlight = 0
    /\ lastReport = [key |-> pathname \o "|" \o ebError, ts |-> lastAuto.ts]
    /\ now - lastAuto.ts < 30000

\* The boundary is reset in this step.
ResetStep == hasError /\ ~hasError'
\* The reporting sub-state the three flags stand for, "none" when they stand
\* for none of the four.
SubStateOf(sending, sentOk, sentFailed) ==
    IF ~sending /\ ~sentOk /\ ~sentFailed THEN "unsent"
    ELSE IF sending /\ ~sentOk /\ ~sentFailed THEN "sending"
    ELSE IF ~sending /\ sentOk /\ ~sentFailed THEN "sent"
    ELSE IF ~sending /\ ~sentOk /\ sentFailed THEN "send-failed"
    ELSE "none"

\* C11: a reset from the faulted state, in whatever reporting sub-state,
\* leaves the boundary healthy with the captured fault cleared and reported,
\* reporting and reportFailed all false.
C11_ResetClearsReporting ==
    [][ResetStep =>
         (/\ ebError' = Null
          /\ ~reported'
          /\ ~reporting'
          /\ ~reportFailed')]_vars

\* C12: while the boundary is faulted its reporting sub-state is exactly one
\* of unsent, sending, sent, send-failed (sent and send-failed never hold
\* together), it moves only unsent -> sending -> sent or send-failed, and
\* sending is entered again only by a manual report taken from send-failed.
C12_SubStateMachine ==
    [][/\ hasError' => SubStateOf(reporting', reported', reportFailed') # "none"
       /\ FaultStep =>
            SubStateOf(reporting', reported', reportFailed') \in {"unsent", "sending"}
       /\ (/\ hasError /\ hasError'
           /\ SubStateOf(reporting', reported', reportFailed')
                # SubStateOf(reporting, reported, reportFailed))
           => \/ /\ SubStateOf(reporting, reported, reportFailed) = "unsent"
                 /\ SubStateOf(reporting', reported', reportFailed') = "sending"
              \/ /\ SubStateOf(reporting, reported, reportFailed) = "sending"
                 /\ SubStateOf(reporting', reported', reportFailed')
                      \in {"sent", "send-failed"}
              \/ /\ SubStateOf(reporting, reported, reportFailed) = "send-failed"
                 /\ SubStateOf(reporting', reported', reportFailed') = "sending"
                 /\ ManualSendStep]_vars

\* C13: a report send that fails, automatic or manual, only sets reportFailed
\* and ends reporting (so the report button is enabled again): the boundary
\* stays as faulted as it was with the same captured error, reported is left
\* alone, and no exception or rejection escapes the boundary.
C13_FailedSendOnlyMarksFailed ==
    /\ ~unhandled
    /\ \A kind \in Kinds :
          ~ENABLED (/\ sendSettled(kind, "failed")
                    /\ ~(/\ hasError' = hasError
                         /\ ebError' = ebError
                         /\ reportFailed'
                         /\ ~reporting'
                         /\ reported' = reported
                         /\ ~unhandled'))
C13_Witness ==
    /\ hasError
    /\ reportFailed
    /\ ~reporting
    /\ ~reported
    /\ InFlight = 0
    /\ trace = <<"setState">>
    /\ ENABLED handleManualReport

\* C14: on fault capture the onError hook is called before the opt-out
\* check, the duplicate check and any send, and whether it returns or throws
\* the boundary becomes faulted and the opt-out check, the duplicate check
\* and the send proceed as they do without a hook; a reset leaves the
\* boundary healthy whatever onReset does.  Nothing a hook throws escapes.
C14_HooksChangeNothing ==
    [][/\ FaultStep =>
            /\ ebError' \in Messages
            /\ ~unhandled'
            /\ \A i \in 1..Len(trace') : trace'[i] = "onError" => i = 1
            /\ IF autoReport = FALSE
               THEN pending' = pending /\ lastReport' = lastReport
                    /\ reporting' = reporting
               ELSE IF /\ storageOK
                       /\ lastReport.ts >= 0
                       /\ lastReport.key = pathname \o "|" \o ebError'
                       /\ now - lastReport.ts < 30000
               THEN pending' = pending /\ lastReport' = lastReport
                    /\ reporting' = reporting
               ELSE AutoSendStep /\ reporting' /\ ~reportFailed'
       /\ ResetStep => (ebError' = Null /\ ~unhandled')]_vars
C14_Witness ==
    /\ hasError
    /\ reporting
    /\ pending = [k \in Kinds |-> IF k = "auto" THEN 1 ELSE 0]
    /\ trace = <<"onError", "catch", "autoReport", "shouldSkipDuplicate",
                 "setState", "sendReport">>
    /\ ~unhandled

\* C24: when the caller opted out of automatic reporting, fault capture does
\* nothing after the onError hook: no send is attempted, the deduplication
\* record is neither read nor written and the reporting sub-state is left as
\* it was, unsent; the boundary still becomes faulted.
C24_OptOutDoesNothing ==
    [][(FaultStep /\ autoReport = FALSE) =>
          /\ hasError'
          /\ pending' = pending
          /\ lastReport' = lastReport
          /\ <<reported', reporting', reportFailed'>> = <<reported, reporting, reportFailed>>
          /\ SubStateOf(reporting, reported, reportFailed) = "unsent" =>
                SubStateOf(reporting', reported', reportFailed') = "unsent"
          /\ \A i \in 1..Len(trace') :
                trace'[i] \notin {"shouldSkipDuplicate", "setState", "sendReport"}]_vars
C24_Witness ==
    /\ hasError
    /\ autoReport = FALSE
    /\ storageOK
    /\ trace = <<"onError", "autoReport">>
    /\ lastReport = NoReport
    /\ InFlight = 0
    /\ SubStateOf(reporting, reported, reportFailed) = "unsent"
    /\ ticks = 1

\* C25: a report outcome shown belongs to a send made for the fault now
\* captured: a send started for an earlier fault that completes after a reset
\* changes nothing in a healthy boundary, and a fault for which no send was
\* started is not shown as reported or failed.
C25_OutcomeOfCurrentFault ==
    [][/\ (SettleStep /\ ~hasError) =>
             <<reported', reporting', reportFailed'>> = <<reported, reporting, reportFailed>>
       /\ (FaultStep /\ pending' = pending) => (~reported' /\ ~reportFailed')]_vars

\* C26: at most one report send, automatic or manual, is in flight for the
\* boundary at any time, and reporting is true exactly while one is, across
\* every interleaving of fault capture, reset, manual report and completion.
C26_OneSendInFlight ==
    /\ InFlight <= 1
    /\ reporting <=> (InFlight > 0)

Init == WidgetInit /\ EbAtRest /\ NameAtRest /\ ViewInit /\ LeadInit /\ GateInit
Next ==
    \/ PickFile /\ UNCHANGED <<ebVars, nameVars, viewVars, leadVars, gateVars>>
    \/ ClickDryRun /\ UNCHANGED <<ebVars, nameVars, viewVars, leadVars, gateVars>>
    \/ ClickAnnotate /\ UNCHANGED <<ebVars, nameVars, viewVars, leadVars, gateVars>>
    \/ UploadProgress /\ UNCHANGED <<ebVars, nameVars, viewVars, leadVars, gateVars>>
    \/ UploadComplete /\ UNCHANGED <<ebVars, nameVars, viewVars, leadVars, gateVars>>
    \/ XhrLoad /\ UNCHANGED <<ebVars, nameVars, viewVars, leadVars, gateVars>>
    \/ XhrError /\ UNCHANGED <<ebVars, nameVars, viewVars, leadVars, gateVars>>
    \/ XhrTimeout /\ UNCHANGED <<ebVars, nameVars, viewVars, leadVars, gateVars>>
    \/ Unmount /\ UNCHANGED <<ebVars, nameVars, viewVars, leadVars, gateVars>>
Spec == Init /\ [][Next]_vars

\* The boundary alone (the widget at rest).
InitEB == WidgetInit /\ EbInit /\ NameAtRest /\ ViewInit /\ LeadInit /\ GateInit
NextEB ==
    \/ FaultCaptured /\ UNCHANGED <<widgetVars, nameVars, viewVars, leadVars, gateVars>>
    \/ SendSettled /\ UNCHANGED <<widgetVars, nameVars, viewVars, leadVars, gateVars>>
    \/ ResetClicked /\ UNCHANGED <<widgetVars, nameVars, viewVars, leadVars, gateVars>>
    \/ handleManualReport /\ UNCHANGED <<widgetVars, nameVars, viewVars, leadVars, gateVars>>
    \/ ClockAdvances /\ UNCHANGED <<widgetVars, nameVars, viewVars, leadVars, gateVars>>
    \/ LocationChanges /\ UNCHANGED <<widgetVars, nameVars, viewVars, leadVars, gateVars>>
SpecEB == InitEB /\ [][NextEB]_vars

\* The download name alone.
InitName == WidgetInit /\ EbAtRest /\ NameInit /\ ViewInit /\ LeadInit /\ GateInit
NextName == NameDownload /\ UNCHANGED <<widgetVars, ebVars, viewVars, leadVars, gateVars>>
SpecName == InitName /\ [][NextName]_vars

\* The issue view alone.
InitView == WidgetInit /\ EbAtRest /\ NameAtRest /\ ViewInit /\ LeadInit /\ GateInit
NextView ==
    \/ IssuesArrive /\ UNCHANGED <<widgetVars, ebVars, nameVars, leadVars, gateVars>>
    \/ QueryTyped /\ UNCHANGED <<widgetVars, ebVars, nameVars, leadVars, gateVars>>
    \/ clearIssues /\ UNCHANGED <<widgetVars, ebVars, nameVars, leadVars, gateVars>>
SpecView == InitView /\ [][NextView]_vars

\* The lead form alone.
InitLead == WidgetInit /\ EbAtRest /\ NameAtRest /\ ViewInit /\ LeadInit /\ GateInit
NextLead ==
    \/ FieldChanged /\ UNCHANGED <<widgetVars, ebVars, nameVars, viewVars, gateVars>>
    \/ onSubmit /\ UNCHANGED <<widgetVars, ebVars, nameVars, viewVars, gateVars>>
    \/ PostSettled /\ UNCHANGED <<widgetVars, ebVars, nameVars, viewVars, gateVars>>
SpecLead == InitLead /\ [][NextLead]_vars

\* The Agents page with its gate.
InitGate == WidgetInit /\ EbAtRest /\ NameAtRest /\ ViewInit /\ LeadInit /\ GateInit
NextGate ==
    \/ GateOpened /\ UNCHANGED <<widgetVars, ebVars, nameVars, viewVars>>
    \/ onClose /\ UNCHANGED <<widgetVars, ebVars, nameVars, viewVars>>
    \/ GateChange /\ UNCHANGED <<widgetVars, ebVars, nameVars, viewVars>>
    \/ GateSubmit /\ UNCHANGED <<widgetVars, ebVars, nameVars, viewVars>>
    \/ GateSettled /\ UNCHANGED <<widgetVars, ebVars, nameVars, viewVars>>
    \/ OrphanSettled /\ UNCHANGED <<widgetVars, ebVars, nameVars, viewVars>>
SpecGate == InitGate /\ [][NextGate]_vars

====
